---- MODULE Spec2Model ----
(***************************************************************************)
(* A model of empiriciSN's Empiricist worker object                        *)
(* (src/empiriciSN/empiriciSN.py): its life cycle (construction, fit,      *)
(* load, fit-method selection, component test), the conditional sampling   *)
(* calls get_SN and get_logR, the catalog parser get_data, and the local   *)
(* surface brightness get_local_SB.                                        *)
(*                                                                         *)
(* The XDGMM density model (package xdgmm) is an external collaborator:    *)
(* only what the worker needs of it is modelled, in the XDGMM_* operators. *)
(* A fitted parameter set is identified by its number of components; its   *)
(* width (mu.shape[1]) is NFeatures.  A draw from a mixture is a row of    *)
(* column labels: entry p of the row is "a value of schema column          *)
(* cols[p]", so that the position a value is read from can be compared     *)
(* with the schema column it belongs to.                                   *)
(*                                                                         *)
(* Numbers that may be not-a-number are one-element tuples <<v>>; NaN is   *)
(* the empty tuple.                                                        *)
(***************************************************************************)
EXTENDS Integers, Sequences, FiniteSets, TLC

VARIABLES est, disk, result

vars == <<est, disk, result>>

----------------------------------------------------------------------------
(* Bounds of the model *)

\* width of the fitted schema (mu.shape[1]); 20 in get_data's schema
NFeatures == 5
\* longest cond_indices / X / Xerr argument of get_logR
MaxCond == 2
\* largest n_SN passed to get_SN
MaxCount == 2
\* most lines in one catalog file
MaxLines == 2

(* Program constants *)

DefaultComponents == 7
FitModelComponents == 6
AstroMLIter == 100
BovyIter == 1000000000
NSNParams == 3

----------------------------------------------------------------------------
(* Values *)

NaN == <<>>
Num(v) == <<v>>
isnan(x) == x = NaN
Square(x) == IF isnan(x) THEN NaN ELSE Num(x[1] * x[1])

Methods == {"astroML", "Bovy"}
MethodArgs == Methods \cup {"other"}

None == "None"
\* a name no attribute lookup finds: the instance has no such attribute
Absent == "<no attribute>"
Files == {"f1", "f2"}
\* "ro" names a place save_model cannot write to and read_model cannot read
FileArgs == Files \cup {"ro"}
NComps == {FitModelComponents, DefaultComponents}

\* an optional argument: None, or the value given
NoneArg == [given |-> FALSE]
Given(v) == [given |-> TRUE, v |-> v]

Range(s) == {s[k] : k \in 1..Len(s)}
SeqsUpTo(S, n) == UNION {[1..k -> S] : k \in 0..n}

----------------------------------------------------------------------------
(* The external XDGMM object: [method, n_iter, n_components, mu], mu = 0   *)
(* for "no parameters" and k > 0 for parameters of k components.           *)

XDGMM_n_iter(method) == IF method = "astroML" THEN AstroMLIter ELSE BovyIter

\* XDGMM(n_components=.., method=..): rejects an unknown method
XDGMM_new(n_components, method) ==
    IF method \notin Methods
    THEN [err |-> "ValueError"]
    ELSE [err |-> "ok",
          xd |-> [method |-> method, n_iter |-> XDGMM_n_iter(method),
                  n_components |-> n_components, mu |-> 0]]

\* XDGMM.fit(X, Xerr): the object itself, refitted; fails on inconsistent
\* shapes or on no samples, leaving the parameters as they were
XDGMM_fit(xd, n_samples, shapes_ok) ==
    IF shapes_ok /\ n_samples > 0
    THEN [err |-> "ok", xd |-> [xd EXCEPT !.mu = xd.n_components]]
    ELSE [err |-> "ExternalError", xd |-> xd]

\* XDGMM.save_model(filename)
XDGMM_save_model(xd, d, filename) ==
    IF filename \in Files
    THEN [err |-> "ok", disk |-> [d EXCEPT ![filename] = xd.mu]]
    ELSE [err |-> "ExternalError", disk |-> d]

\* XDGMM.read_model(filename): parameters and component count from the file
XDGMM_read_model(xd, d, filename) ==
    IF filename \in Files /\ d[filename] > 0
    THEN [err |-> "ok",
          xd |-> [xd EXCEPT !.mu = d[filename], !.n_components = d[filename]]]
    ELSE [err |-> "ExternalError", xd |-> xd]

\* XDGMM.condition(X[, Xerr]): the mixture over the columns of X that are
\* NaN, in schema order (columns are numbered from 0)
XDGMM_condition(X) ==
    LET RECURSIVE unobs(_)
        unobs(i) == IF i > Len(X) THEN <<>>
                    ELSE (IF isnan(X[i]) THEN <<i - 1>> ELSE <<>>) \o unobs(i + 1)
    IN unobs(1)

\* mixture.sample(size): size rows, one entry per column of the mixture
XDGMM_sample(cols, size) == [r \in 1..size |-> cols]

----------------------------------------------------------------------------
(* The Empiricist object *)

NoObject == [exists |-> FALSE]

Attr(e, name) == IF name \in DOMAIN e THEN e[name] ELSE Absent

Done(op, outcome, args, out) ==
    [op |-> op, outcome |-> outcome, args |-> args, out |-> out]

\* self.model_file = filename: creates the attribute when there is none
SetModelFile(e, filename) ==
    [n \in DOMAIN e \cup {"model_file"} |->
        IF n = "model_file" THEN filename ELSE e[n]]

\* read_model(filename) on object e
read_model_on(e, d, filename) ==
    LET r == XDGMM_read_model(e.XDGMM, d, filename) IN
    IF r.err # "ok" THEN [err |-> r.err, est |-> e]
    ELSE [err |-> "ok",
          est |-> SetModelFile([e EXCEPT !.XDGMM = r.xd], filename)]

\* Empiricist(model_file, fit_method)
Empiricist__init__(model_file, fit_method) ==
    /\ ~est.exists
    /\ LET x == XDGMM_new(DefaultComponents, fit_method) IN
       IF x.err # "ok"
       THEN /\ est' = est
            /\ result' = Done("__init__", x.err,
                              [model_file |-> model_file, fit_method |-> fit_method], <<>>)
       ELSE LET e0 == [exists |-> TRUE, XDGMM |-> x.xd, fit_method |-> fit_method]
                r == IF model_file = None THEN [err |-> "ok", est |-> e0]
                     ELSE read_model_on(e0, disk, model_file)
            IN /\ est' = IF r.err = "ok" THEN r.est ELSE est
               /\ result' = Done("__init__", r.err,
                                 [model_file |-> model_file, fit_method |-> fit_method], <<>>)
    /\ UNCHANGED disk

read_model(filename) ==
    /\ est.exists
    /\ LET r == read_model_on(est, disk, filename) IN
       /\ est' = r.est
       /\ result' = Done("read_model", r.err, [filename |-> filename], <<>>)
    /\ UNCHANGED disk

\* set_fit_method(fit_method): the iteration cap of the method, or no method
n_iter_of(fit_method) ==
    IF fit_method = "astroML" THEN AstroMLIter
    ELSE IF fit_method = "Bovy" THEN BovyIter
    ELSE 0

\* a set_fit_method that stores whatever method it is given
set_fit_method_unchecked(e, fit_method) ==
    [err |-> "ok",
     est |-> [e EXCEPT !.XDGMM.method = fit_method,
                       !.XDGMM.n_iter = n_iter_of(fit_method),
                       !.fit_method = fit_method]]

set_fit_method_on(e, fit_method) ==
    IF n_iter_of(fit_method) = 0
    THEN [err |-> "ValueError", est |-> e]
    ELSE [err |-> "ok",
          est |-> [e EXCEPT !.XDGMM.method = fit_method,
                            !.XDGMM.n_iter = n_iter_of(fit_method),
                            !.fit_method = fit_method]]

set_fit_method(fit_method) ==
    /\ est.exists
    /\ LET r == set_fit_method_on(est, fit_method) IN
       /\ est' = r.est
       /\ result' = Done("set_fit_method", r.err, [fit_method |-> fit_method], <<>>)
    /\ UNCHANGED disk

\* fit_model(X, Xerr, filename, n_components), statement by statement
fit_model_on(e, d, n_samples, shapes_ok, filename, n_components) ==
    LET e1 == [e EXCEPT !.XDGMM.n_components = n_components]
        f  == XDGMM_fit(e1.XDGMM, n_samples, shapes_ok)
        e2 == [e1 EXCEPT !.XDGMM = f.xd]
        s  == XDGMM_save_model(e2.XDGMM, d, filename)
    IN IF f.err # "ok" THEN [err |-> f.err, step |-> "fit", est |-> e1, disk |-> d]
       ELSE IF s.err # "ok" THEN [err |-> s.err, step |-> "save", est |-> e2, disk |-> d]
       ELSE [err |-> "ok", step |-> "done",
             est |-> SetModelFile(e2, filename), disk |-> s.disk]

fit_model(n_samples, shapes_ok, filename, n_components) ==
    /\ est.exists
    /\ LET r == fit_model_on(est, disk, n_samples, shapes_ok, filename, n_components) IN
       /\ est' = r.est
       /\ disk' = r.disk
       /\ result' = Done("fit_model", r.err,
                         [filename |-> filename, n_components |-> n_components],
                         [step |-> r.step])

\* XDGMM.bic_test(X, Xerr, component_range, no_err): fits one model per
\* candidate; whether the object is left refitted is the library's affair
XDGMM_bic_test(xd, shapes_ok, component_range) ==
    IF shapes_ok /\ component_range # <<>>
    THEN [err |-> "ok",
          after |-> {xd, [xd EXCEPT !.n_components = component_range[Len(component_range)],
                                    !.mu = component_range[Len(component_range)]]}]
    ELSE [err |-> "ExternalError", after |-> {xd}]

\* "if self.model_file is None: raise StandardError(...)" as Python runs it
model_file_guard(e) ==
    IF Attr(e, "model_file") = Absent THEN "AttributeError"
    ELSE IF e.model_file = None THEN "StandardError"
    ELSE "ok"

\* a component_test that first asked for a model, as get_SN does
component_test_guarded(e, shapes_ok, component_range) ==
    LET g == model_file_guard(e)
        r == XDGMM_bic_test(e.XDGMM, shapes_ok, component_range)
    IN IF g # "ok" THEN [err |-> g, executed |-> FALSE, after |-> {e.XDGMM}]
       ELSE [err |-> r.err, executed |-> TRUE, after |-> r.after]

\* component_test(X, Xerr, component_range, no_err): the call of bic_test
component_test_on(e, shapes_ok, component_range) ==
    LET r == XDGMM_bic_test(e.XDGMM, shapes_ok, component_range)
    IN [err |-> r.err, executed |-> TRUE, after |-> r.after]

component_test(shapes_ok, component_range, no_err) ==
    /\ est.exists
    /\ LET r == component_test_on(est, shapes_ok, component_range) IN
       /\ \E xd \in r.after : est' = [est EXCEPT !.XDGMM = xd]
       /\ result' = Done("component_test", r.err,
                         [component_range |-> component_range, no_err |-> no_err],
                         [executed |-> r.executed])
    /\ UNCHANGED disk

\* the rows get_SN returns from the conditioned model
SN_rows(cols, n_SN) == XDGMM_sample(cols, n_SN)

get_SN_on(e, X, Xerr, n_SN) ==
    LET g == model_file_guard(e)
        a == [X |-> X, Xerr |-> Xerr, n_SN |-> n_SN]
    IN IF g # "ok" THEN Done("get_SN", g, a, [conditioned |-> FALSE])
       ELSE Done("get_SN", "ok", a,
                 [conditioned |-> TRUE, rows |-> SN_rows(XDGMM_condition(X), n_SN)])

get_SN(X, Xerr, n_SN) ==
    /\ est.exists
    /\ result' = get_SN_on(est, X, Xerr, n_SN)
    /\ UNCHANGED <<est, disk>>

----------------------------------------------------------------------------
(* get_logR *)

\* the checks without the one on R_index
InvalidConditioning_noR(cond_indices, R_index) ==
    \/ 0 \in Range(cond_indices) \/ 1 \in Range(cond_indices) \/ 2 \in Range(cond_indices)

\* the two checks on cond_indices, in the code's order
InvalidConditioning(cond_indices, R_index) ==
    \/ 0 \in Range(cond_indices) \/ 1 \in Range(cond_indices) \/ 2 \in Range(cond_indices)
    \/ R_index \in Range(cond_indices)

\* R_cond_idx left at R_index
Shift_never(i, R_index, R_cond_idx) == R_cond_idx

\* "if i < R_index: R_cond_idx -= 1" for a column i that is conditioned on
Shift(i, R_index, R_cond_idx) ==
    IF i < R_index THEN R_cond_idx - 1 ELSE R_cond_idx

\* the input error squared, as get_data squares the errors it reads
ObservedErr_squared(e) == Square(e)

\* what is appended to cond_err for the j-th input error
ObservedErr(e) == e

\* the entry appended to cond_err for a column that is not conditioned on
UnobservedErr == Num(0)

\* one pass of "for i in range(n_features)"; j counts from 0, X[j] is X[j + 1] here
LoopBody(st, i, cond_indices, R_index, X, Xerr) ==
    IF st.err # "ok" THEN st
    ELSE IF i \in Range(cond_indices)
    THEN IF st.j >= Len(X) \/ (Xerr.given /\ st.j >= Len(Xerr.v))
         THEN [st EXCEPT !.err = "IndexError"]
         ELSE [err |-> "ok",
               cond_data |-> Append(st.cond_data, X[st.j + 1]),
               cond_err |-> IF Xerr.given
                            THEN Append(st.cond_err, ObservedErr(Xerr.v[st.j + 1]))
                            ELSE st.cond_err,
               j |-> st.j + 1,
               R_cond_idx |-> Shift(i, R_index, st.R_cond_idx)]
    ELSE [st EXCEPT !.cond_data = Append(@, NaN),
                    !.cond_err = IF Xerr.given THEN Append(@, UnobservedErr) ELSE @]

RECURSIVE Loop(_, _, _, _, _, _, _)
Loop(st, i, n_features, cond_indices, R_index, X, Xerr) ==
    IF i >= n_features THEN st
    ELSE Loop(LoopBody(st, i, cond_indices, R_index, X, Xerr), i + 1,
              n_features, cond_indices, R_index, X, Xerr)

\* self.XDGMM.mu.shape[1]
n_features_of(xd) == IF xd.mu = 0 THEN 0 ELSE NFeatures

get_logR_on(e, cond_indices, R_index, X, Xerr) ==
    LET a == [cond_indices |-> cond_indices, R_index |-> R_index, X |-> X, Xerr |-> Xerr]
        g == model_file_guard(e)
        no == [conditioned |-> FALSE]
    IN IF g # "ok" THEN Done("get_logR", g, a, no)
       ELSE IF InvalidConditioning(cond_indices, R_index)
       THEN Done("get_logR", "ValueError", a, no)
       ELSE IF e.XDGMM.mu = 0 THEN Done("get_logR", "AttributeError", a, no)
       ELSE
         LET st == Loop([err |-> "ok", cond_data |-> <<>>, cond_err |-> <<>>, j |-> 0,
                         R_cond_idx |-> R_index],
                        0, n_features_of(e.XDGMM), cond_indices, R_index, X, Xerr)
             sample == XDGMM_sample(XDGMM_condition(st.cond_data), 1)
             o == [conditioned |-> TRUE, cond_data |-> st.cond_data,
                   cond_err |-> st.cond_err,
                   R_cond_idx |-> st.R_cond_idx, sample |-> sample]
         IN IF st.err # "ok" THEN Done("get_logR", st.err, a, no)
            ELSE IF st.R_cond_idx >= Len(sample[1])
            THEN Done("get_logR", "IndexError", a, o)
            ELSE Done("get_logR", "ok", a, o @@
                                           [logR |-> sample[1][st.R_cond_idx + 1]])

get_logR(cond_indices, R_index, X, Xerr) ==
    /\ est.exists
    /\ result' = get_logR_on(est, cond_indices, R_index, X, Xerr)
    /\ UNCHANGED <<est, disk>>

----------------------------------------------------------------------------
(* get_data *)

\* the fields of a line that the surface-brightness errors involve; every
\* other field of a data line holds a number, and fields follow field 57
SBFields == {33, 39, 45, 51, 52, 57}
Tok == {"nan", "2"}

\* float(token)
float(tok) == IF tok = "nan" THEN NaN ELSE Num(2)

\* "if line1[0]=='#': continue" and the test on the five fields
Skipped(line) ==
    \/ line.comment
    \/ line.f[33] = "nan" \/ line.f[39] = "nan" \/ line.f[45] = "nan"
    \/ line.f[51] = "nan" \/ line.f[57] = "nan"

\* SB_u_err .. SB_z_err of a line that is kept
SB_errs(line) ==
    <<float(line.f[33]), float(line.f[39]), float(line.f[45]),
      float(line.f[52]), float(line.f[57])>>

RECURSIVE ReadLines(_, _, _)
ReadLines(lines, fileno, k) ==
    IF k > Len(lines) THEN <<>>
    ELSE (IF Skipped(lines[k]) THEN <<>>
          ELSE <<[src |-> <<fileno, k>>, SB_err |-> SB_errs(lines[k])]>>)
         \o ReadLines(lines, fileno, k + 1)

RECURSIVE ReadFiles(_, _)
ReadFiles(filelist, n) ==
    IF n > Len(filelist) THEN <<>>
    ELSE ReadLines(filelist[n], n, 1) \o ReadFiles(filelist, n + 1)

\* X: one row per kept line; Xerr: per row, the last five diagonal entries
get_data_of(filelist) ==
    LET rows == ReadFiles(filelist, 1) IN
    [X |-> rows,
     Xerr |-> [r \in 1..Len(rows) |-> [c \in 1..5 |-> Square(rows[r].SB_err[c])]]]

get_data(filelist) ==
    /\ est.exists
    /\ result' = Done("get_data", "ok", [filelist |-> filelist], get_data_of(filelist))
    /\ UNCHANGED <<est, disk>>

fit_from_files(filelist, filename, n_components) ==
    /\ est.exists
    /\ LET d == get_data_of(filelist)
           r == fit_model_on(est, disk, Len(d.X), TRUE, filename, n_components)
       IN /\ est' = r.est
          /\ disk' = r.disk
          /\ result' = Done("fit_from_files", r.err,
                            [filename |-> filename, n_components |-> n_components],
                            [step |-> r.step])

----------------------------------------------------------------------------
(* Arguments *)

CommentLine == [comment |-> TRUE, f |-> [k \in SBFields |-> "2"]]
DataLines == {[comment |-> FALSE, f |-> t] : t \in [SBFields -> Tok]}
GoodLine == [comment |-> FALSE, f |-> [k \in SBFields |-> "2"]]
Lines == DataLines \cup {CommentLine}
FileLists ==
    {<<f>> : f \in SeqsUpTo(Lines, MaxLines)}
    \cup {<<f, g>> : f \in SeqsUpTo(Lines, 1), g \in SeqsUpTo(Lines, 1)}

Vals == {NaN, Num(1), Num(2)}
\* the errors of a call that gives them: one per value, all different
ErrsFor(X) == [k \in 1..Len(X) |-> Num(k + 1)]
Partials == [1..NFeatures -> {NaN, Num(1)}]

Init ==
    /\ est = NoObject
    /\ disk \in [FileArgs -> {0, DefaultComponents}]
    /\ disk["ro"] = 0
    /\ result = Done("none", "ok", <<>>, <<>>)

Next ==
    \/ \E mf \in {None} \cup FileArgs, m \in MethodArgs : Empiricist__init__(mf, m)
    \/ \E f \in FileArgs : read_model(f)
    \/ \E m \in MethodArgs : set_fit_method(m)
    \/ \E ok \in BOOLEAN, f \in FileArgs, n \in NComps : fit_model(1, ok, f, n)
    \/ \E ok \in BOOLEAN, cr \in {<<>>, <<FitModelComponents, DefaultComponents>>} :
          component_test(ok, cr, FALSE)
    \/ \E fl \in {<<<<CommentLine>>>>, <<<<CommentLine, GoodLine>>>>}, f \in FileArgs, n \in NComps :
          fit_from_files(fl, f, n)
    \/ \E X \in {[k \in 1..NFeatures |-> IF k <= NSNParams THEN NaN ELSE Num(1)]},
          withErr \in BOOLEAN, n \in 1..MaxCount :
          get_SN(X, IF withErr THEN Given([k \in 1..NFeatures |-> Num(0)]) ELSE NoneArg, n)
    \/ \E ci \in {<<>>, <<NSNParams>>, <<0>>}, X \in {<<Num(1)>>} :
          get_logR(ci, NSNParams + 1, X, NoneArg)

Spec == Init /\ [][Next]_vars

----------------------------------------------------------------------------
(* Sampling, over all arguments: the object as its construction left it,   *)
(* without a model or with the model of file f1                            *)

InitSample ==
    /\ disk = [f \in FileArgs |-> IF f = "f1" THEN DefaultComponents ELSE 0]
    /\ \E mf \in {None, "f1"} :
         LET e0 == [exists |-> TRUE, XDGMM |-> XDGMM_new(DefaultComponents, "astroML").xd,
                    fit_method |-> "astroML"]
         IN est = IF mf = None THEN e0 ELSE read_model_on(e0, disk, mf).est
    /\ result = Done("none", "ok", <<>>, <<>>)

\* a sampling call leaves the object as it was: one call per behaviour
\* covers every call
FirstCall == result.op = "none"

SampleCalls ==
    \/ \E X \in Partials, withErr \in BOOLEAN, n \in 1..MaxCount :
          get_SN(X, IF withErr THEN Given([k \in 1..NFeatures |-> Num(0)]) ELSE NoneArg, n)
    \/ \E ci \in SeqsUpTo(0..NFeatures, MaxCond), R \in 0..NFeatures,
          X \in SeqsUpTo(Vals, MaxCond), withErr \in BOOLEAN :
          get_logR(ci, R, X, IF withErr THEN Given(ErrsFor(X)) ELSE NoneArg)

NextSample == FirstCall /\ SampleCalls

SpecSample == InitSample /\ [][NextSample]_vars

----------------------------------------------------------------------------
(* The catalog parser, over all file lists *)

InitData ==
    /\ disk = [f \in FileArgs |-> 0]
    /\ est = [exists |-> TRUE, XDGMM |-> XDGMM_new(DefaultComponents, "astroML").xd,
              fit_method |-> "astroML"]
    /\ result = Done("none", "ok", <<>>, <<>>)

NextData == FirstCall /\ \E fl \in FileLists : get_data(fl)

SpecData == InitData /\ [][NextData]_vars

----------------------------------------------------------------------------
(* get_local_SB *)
(* A float is one of six classes: not-a-number, the two infinities, zero,  *)
(* and a finite number below or above zero.  The operations are those of   *)
(* numpy's float64 on the classes.  Finite operands give a finite result   *)
(* (no overflow); a finite magnitude outweighs the finite terms added to   *)
(* it (|mag| about 20, radii of a few arcsec), so that Ie and Io have the  *)
(* sign of the magnitude; a finite radius has pi*Re**2 > 1.                *)

NFilters == 5

Floats == {"nan", "-inf", "neg", "zero", "pos", "+inf"}
IsInf(x) == x \in {"-inf", "+inf"}
Sign(x) == IF x \in {"-inf", "neg"} THEN -1 ELSE IF x = "zero" THEN 0 ELSE 1
Signed(s, inf) ==
    IF inf THEN (IF s > 0 THEN "+inf" ELSE "-inf") ELSE (IF s > 0 THEN "pos" ELSE "neg")

\* x * y
Mul(x, y) ==
    IF x = "nan" \/ y = "nan" THEN "nan"
    ELSE IF (IsInf(x) /\ y = "zero") \/ (x = "zero" /\ IsInf(y)) THEN "nan"
    ELSE IF x = "zero" \/ y = "zero" THEN "zero"
    ELSE Signed(Sign(x) * Sign(y), IsInf(x) \/ IsInf(y))

\* x / y, a division by zero giving an infinity or NaN as numpy does
Div(x, y) ==
    IF x = "nan" \/ y = "nan" THEN "nan"
    ELSE IF (IsInf(x) /\ IsInf(y)) \/ (x = "zero" /\ y = "zero") THEN "nan"
    ELSE IF y = "zero" THEN Signed(Sign(x), TRUE)
    ELSE IF IsInf(y) \/ x = "zero" THEN "zero"
    ELSE Signed(Sign(x) * Sign(y), IsInf(x))

\* x + y; of two finite terms of opposite signs the first outweighs
Add(x, y) ==
    IF x = "nan" \/ y = "nan" THEN "nan"
    ELSE IF IsInf(x) /\ IsInf(y) /\ x # y THEN "nan"
    ELSE IF IsInf(x) THEN x
    ELSE IF IsInf(y) THEN y
    ELSE IF x = "zero" THEN y
    ELSE x

\* x ** p for p = 0.25, 1.25, and np.sqrt(x)
Root(x) == IF x \in {"nan", "-inf", "neg"} THEN "nan" ELSE x

\* 10 ** x and np.exp(x)
Exp(x) ==
    IF x = "nan" THEN "nan"
    ELSE IF x = "-inf" THEN "zero"
    ELSE IF x = "+inf" THEN "+inf"
    ELSE "pos"

\* np.log10(x), for a finite x > 1
Log10(x) ==
    IF x \in {"nan", "-inf", "neg"} THEN "nan"
    ELSE IF x = "zero" THEN "-inf"
    ELSE x

np_isnan(x) == x = "nan"

\* "if np.isnan(sb_unc): sb_unc = 0.0" then "if sb_unc < 0: sb_unc = sb_unc*-1.0"
Clamp(sb_unc) ==
    LET u == IF np_isnan(sb_unc) THEN "zero" ELSE sb_unc
    IN IF Sign(u) < 0 THEN Mul(u, "neg") ELSE u

\* Ie and Ie_unc of one filter
Ie_of(b) == Add(Add(b.mag, "pos"), Mul("pos", Log10(Mul("pos", Mul(b.Re, b.Re)))))

Ie_unc_of(b) ==
    LET Re2_unc == Mul(Mul(Mul("pos", b.Re), b.Re_err), "pos")
        log_unc == Div(Mul("pos", Re2_unc),
                       Mul(Log10(Mul("pos", Mul(b.Re, b.Re))), "pos"))
    IN Root(Add(Mul(b.magerr, b.magerr), Mul(log_unc, log_unc)))

\* the exponential profile: sb and sb_unc before the two tests
Sersic1(b, sep) ==
    LET r == Div(sep, b.Re)
        Io == Add(Ie_of(b), "neg")
        Io_unc == Ie_unc_of(b)
        e == Exp(Mul("neg", r))
        sb == Mul(Io, e)
        exp_unc == Div(Mul(Mul(Mul(e, "pos"), sep), b.Re_err), Mul(b.Re, b.Re))
        q1 == Div(Io_unc, Io)
        q2 == Div(exp_unc, e)
    IN [sb |-> sb, sb_unc |-> Mul(sb, Root(Add(Mul(q1, q1), Mul(q2, q2))))]

\* the de Vaucouleurs profile: the second term is not squared
Sersic4(b, sep) ==
    LET r == Div(sep, b.Re)
        Io == Add(Ie_of(b), "neg")
        Io_unc == Ie_unc_of(b)
        e == Exp(Mul("neg", Root(r)))
        sb == Mul(Io, e)
        exp_unc == Div(Mul(Mul(Mul(e, "pos"), sep), b.Re_err), Mul("pos", Root(b.Re)))
        q1 == Div(Io_unc, Io)
    IN [sb |-> sb, sb_unc |-> Mul(sb, Root(Add(Mul(q1, q1), Div(exp_unc, e))))]

\* SB_params is [sersic, blocks]: blocks[j + 1] is (magnitude, mag_unc,
\* effective radius, rad_unc) of filter j; SB_params[11] is blocks[3].Re
get_local_SB_of(SB_params, R) ==
    IF SB_params.sersic # 1 /\ SB_params.sersic # 4
    THEN Done("get_local_SB", "ValueError", [SB_params |-> SB_params, R |-> R], <<>>)
    ELSE LET sep == Mul(Exp(R), SB_params.blocks[3].Re)
             one(j) == IF SB_params.sersic = 1 THEN Sersic1(SB_params.blocks[j], sep)
                       ELSE Sersic4(SB_params.blocks[j], sep)
         IN Done("get_local_SB", "ok", [SB_params |-> SB_params, R |-> R],
                 [SBs |-> [j \in 1..NFilters |-> one(j).sb],
                  sb_unc |-> [j \in 1..NFilters |-> one(j).sb_unc],
                  SB_errs |-> [j \in 1..NFilters |-> Clamp(one(j).sb_unc)]])

get_local_SB(SB_params, R) ==
    /\ est.exists
    /\ result' = get_local_SB_of(SB_params, R)
    /\ UNCHANGED <<est, disk>>

\* the filter blocks of a call: magnitudes and radii that are numbers or
\* NaN, uncertainties that are not negative
FilterBlocks ==
    [mag : {"neg", "pos", "nan"}, magerr : {"zero", "pos", "+inf", "nan"},
     Re : {"zero", "pos", "+inf", "nan"}, Re_err : {"zero", "pos", "+inf", "nan"}]
UsualBlock == [mag |-> "pos", magerr |-> "pos", Re |-> "pos", Re_err |-> "pos"]
\* one filter's block is any block, the four others are usual ones
SBParams ==
    {[sersic |-> n, blocks |-> [j \in 1..NFilters |-> IF j = k THEN b ELSE UsualBlock]] :
        n \in {1, 2, 4}, k \in 1..NFilters, b \in FilterBlocks}

InitSB == InitData

NextSB == FirstCall /\ \E p \in SBParams, R \in {"neg", "zero", "pos", "nan"} : get_local_SB(p, R)

SpecSB == InitSB /\ [][NextSB]_vars
----------------------------------------------------------------------------
(* Properties *)

Unfitted == est.exists /\ Attr(est, "model_file") = Absent
ModelActive == est.exists /\ Attr(est, "model_file") \in Files /\ est.XDGMM.mu > 0
Distinct(s) == \A k, l \in 1..Len(s) : s[k] = s[l] => k = l
Ascending(s) == \A k, l \in 1..Len(s) : k < l => s[k] < s[l]
SNColumns == 0..(NSNParams - 1)

\* C1: on an object built without a model file and with no fit or load
\* done, get_SN and get_logR fail with StandardError("Model parameters not
\* set."), whatever their arguments.
C1_ModelNotLoaded ==
    (result.op \in {"get_SN", "get_logR"} /\ Unfitted)
        => result.outcome = "StandardError"

\* C2: a fit_model that fails, in the fit or in the save, leaves the object
\* (model, component count, model_file) as it was before the call.
C2_FailedFitChangesNothing ==
    [][(result'.op = "fit_model" /\ result'.outcome # "ok") => est' = est]_vars

\* C3: with a model, get_logR raises the ValueError of its two checks exactly
\* when cond_indices holds 0, 1 or 2 or holds R_index, and then neither
\* conditions nor samples.
C3_InvalidConditioning ==
    (result.op = "get_logR" /\ ModelActive) =>
        LET ci == Range(result.args.cond_indices)
            bad == ci \cap SNColumns # {} \/ result.args.R_index \in ci
        IN /\ (result.outcome = "ValueError") <=> bad
           /\ bad => ~result.out.conditioned

C3_Witness ==
    /\ result.op = "get_logR" /\ ModelActive
    /\ result.args.cond_indices = <<3, 4>> /\ result.args.R_index = 4
    /\ result.outcome = "ValueError"

\* a call of get_logR the documentation allows: a model, distinct host
\* columns of the schema to condition on, a value that is a number for
\* each, and a column of the schema to solve for that is none of them
ValidLogRCall ==
    /\ result.op = "get_logR" /\ ModelActive
    /\ Distinct(result.args.cond_indices)
    /\ Range(result.args.cond_indices) \subseteq NSNParams..(NFeatures - 1)
    /\ result.args.R_index \in (0..(NFeatures - 1)) \ Range(result.args.cond_indices)
    /\ Len(result.args.X) = Len(result.args.cond_indices)
    /\ \A k \in 1..Len(result.args.X) : ~isnan(result.args.X[k])

\* C4: a valid get_logR returns the entry of the sample at R_index minus the
\* number of conditioned columns below R_index; that position is inside the
\* sample, whose width is the number of columns not conditioned on, and the
\* entry there is the one of schema column R_index.
C4_RadiusPosition ==
    ValidLogRCall =>
        LET ci == Range(result.args.cond_indices)
            R == result.args.R_index
            pos == R - Cardinality({i \in ci : i < R})
        IN /\ result.outcome = "ok"
           /\ result.out.R_cond_idx = pos
           /\ Len(result.out.sample[1]) = NFeatures - Cardinality(ci)
           /\ 0 <= pos /\ pos < Len(result.out.sample[1])
           /\ result.out.logR = R

C4_Witness ==
    /\ ValidLogRCall
    /\ result.args.cond_indices = <<3>> /\ result.args.R_index = 4
    /\ result.out.R_cond_idx = 3 /\ result.out.logR = 4

\* C5: the vector get_logR conditions on has n_features entries, X[k] at
\* position cond_indices[k] for every k and NaN elsewhere, in whatever order
\* cond_indices lists the columns.
C5_Placement ==
    (/\ result.op = "get_logR" /\ ModelActive /\ result.out.conditioned
     /\ Distinct(result.args.cond_indices)
     /\ Range(result.args.cond_indices) \subseteq 0..(NFeatures - 1)
     /\ Len(result.args.X) = Len(result.args.cond_indices)
     /\ \A k \in 1..Len(result.args.X) : ~isnan(result.args.X[k]))
    => /\ Len(result.out.cond_data) = NFeatures
       /\ \A k \in 1..Len(result.args.cond_indices) :
             result.out.cond_data[result.args.cond_indices[k] + 1] = result.args.X[k]
       /\ \A p \in 0..(NFeatures - 1) :
             p \notin Range(result.args.cond_indices) => isnan(result.out.cond_data[p + 1])

\* a get_logR that was given errors and went on to condition
ConditionedWithErrors ==
    /\ result.op = "get_logR" /\ ModelActive /\ result.out.conditioned
    /\ result.args.Xerr.given

\* C6 as stated: the error vector holds zero at the positions not conditioned
\* on and the square of the input error at the others (cond_indices listed
\* in ascending order).
C6_SquaredErrors ==
    (/\ ConditionedWithErrors
     /\ Ascending(result.args.cond_indices)
     /\ Range(result.args.cond_indices) \subseteq 0..(NFeatures - 1))
    => /\ Len(result.out.cond_err) = NFeatures
       /\ \A k \in 1..Len(result.args.cond_indices) :
             result.out.cond_err[result.args.cond_indices[k] + 1]
                 = Square(result.args.Xerr.v[k])
       /\ \A p \in 0..(NFeatures - 1) :
             p \notin Range(result.args.cond_indices) => result.out.cond_err[p + 1] = Num(0)

\* C6, amended: the error vector passed to the conditioning holds zero at
\* every position not conditioned on and the input error itself, not its
\* square, at the others: the k-th error given is at the k-th smallest
\* conditioned column.
C6_RawErrors ==
    ConditionedWithErrors =>
        /\ Len(result.out.cond_err) = NFeatures
        /\ \A p \in 0..(NFeatures - 1) :
             LET ci == Range(result.args.cond_indices) IN
             result.out.cond_err[p + 1] =
                 IF p \in ci
                 THEN result.args.Xerr.v[1 + Cardinality({i \in ci : i < p})]
                 ELSE Num(0)

C6_Witness ==
    /\ ConditionedWithErrors
    /\ result.args.cond_indices = <<3, 4>>
    /\ result.out.cond_err = <<Num(0), Num(0), Num(0), Num(2), Num(3)>>

\* C7 as stated: a component_test on an object with no fit or load done is
\* rejected, not executed.
C7_RejectedWhenUnfitted ==
    (result.op = "component_test" /\ Unfitted) => ~result.out.executed

\* C7, amended: component_test makes no check of the life cycle; it is
\* executed (handed to bic_test) in every state, the Unfitted one included.
C7_ExecutedInEveryState ==
    result.op = "component_test" =>
        /\ result.out.executed
        /\ result.outcome \in {"ok", "ExternalError"}

C7_Witness ==
    /\ result.op = "component_test" /\ Unfitted
    /\ result.out.executed /\ result.outcome = "ok"

\* C8: the fit method is "astroML" or "Bovy": a construction or a
\* set_fit_method with another value fails with ValueError; a failed
\* set_fit_method changes nothing of the object; after a set_fit_method that
\* succeeds the iteration cap is 100 for astroML and 10^9 for Bovy.
C8_Selected ==
    /\ (result.op = "__init__" /\ result.args.fit_method \notin {"astroML", "Bovy"})
          => result.outcome = "ValueError" /\ ~est.exists
    /\ (result.op = "set_fit_method" /\ result.args.fit_method \notin {"astroML", "Bovy"})
          => result.outcome = "ValueError"
    /\ (result.op = "set_fit_method" /\ result.outcome = "ok")
          => /\ est.fit_method = result.args.fit_method
             /\ est.XDGMM.method = result.args.fit_method
             /\ result.args.fit_method = "astroML" => est.XDGMM.n_iter = 100
             /\ result.args.fit_method = "Bovy" => est.XDGMM.n_iter = 1000000000
    /\ est.exists => est.fit_method \in {"astroML", "Bovy"}
                     /\ est.XDGMM.method = est.fit_method

\* C8: the selection holds in every state, and a set_fit_method that fails
\* is a step that leaves the object as it was.
C8_FitMethod ==
    /\ []C8_Selected
    /\ [][(result'.op = "set_fit_method" /\ result'.outcome # "ok") => est' = est]_vars

C8_Witness ==
    /\ result.op = "set_fit_method" /\ result.outcome = "ValueError"
    /\ est.fit_method = "Bovy" /\ est.XDGMM.n_iter = 1000000000
    /\ ModelActive

\* the lines of a file list, each as <<file, line>>, that are data lines
\* with none of the five surface-brightness-error fields read as 'nan'
ErrFields == {33, 39, 45, 52, 57}
LinesToKeep(filelist) ==
    {<<n, k>> \in (1..Len(filelist)) \X (1..(MaxLines + 1)) :
        /\ k <= Len(filelist[n])
        /\ ~filelist[n][k].comment
        /\ \A c \in ErrFields : filelist[n][k].f[c] # "nan"}
Before(a, b) == a[1] < b[1] \/ (a[1] = b[1] /\ a[2] < b[2])

\* C9: get_data keeps exactly the data lines in which none of the five
\* fields read as surface-brightness errors is 'nan', one row per line and in
\* file order, so that no row has a surface-brightness error read from 'nan'.
C9_RetainedRows ==
    result.op = "get_data" =>
        LET X == result.out.X IN
        /\ {X[r].src : r \in 1..Len(X)} = LinesToKeep(result.args.filelist)
        /\ \A r, q \in 1..Len(X) : r < q => Before(X[r].src, X[q].src)
        /\ \A r \in 1..Len(X), c \in 1..5 : ~isnan(X[r].SB_err[c])

\* C10: with a model, get_SN with n_SN = n on a vector whose first three
\* entries are NaN returns n rows of 3 entries, those of schema columns 0 to
\* 2, whichever other entries are NaN too.
C10_SNShape ==
    (/\ result.op = "get_SN" /\ ModelActive
     /\ \A k \in 1..NSNParams : isnan(result.args.X[k]))
    => /\ result.outcome = "ok"
       /\ Len(result.out.rows) = result.args.n_SN
       /\ \A r \in 1..Len(result.out.rows) : result.out.rows[r] = <<0, 1, 2>>

\* C11: for sersic index 1 and 4, each of the 5 uncertainties get_local_SB
\* returns is finite and not below zero: an uncertainty that comes out NaN,
\* +infinity or -infinity is returned as 0, a negative one with its sign
\* flipped.
C11_FiniteNonNegative ==
    (result.op = "get_local_SB" /\ result.outcome = "ok") =>
        \A j \in 1..NFilters :
            /\ result.out.SB_errs[j] \in {"zero", "pos"}
            /\ result.out.sb_unc[j] \in {"nan", "-inf", "+inf"}
                  => result.out.SB_errs[j] = "zero"
            /\ result.out.sb_unc[j] = "neg" => result.out.SB_errs[j] = "pos"
====
